---- MODULE Spec2Model ----
(***************************************************************************)
(* PacLead platform back-end: authentication, tenant scoping, products,    *)
(* agent settings and the WhatsApp (UAZAPI) pass-through, as a state       *)
(* machine.  Requests are served by a pool of worker threads; a handler is *)
(* atomic between two I/O boundaries (a storage operation or an upstream   *)
(* HTTP call) and may interleave with other requests at those boundaries.  *)
(*                                                                         *)
(* Strings are sequences of one-character strings, so that strip(),        *)
(* lower() and re.sub(r"\D+", "", s) are computed, not assumed.            *)
(***************************************************************************)
EXTENDS Integers, Sequences, FiniteSets, TLC

\* ------------------------------------------------------------------ bounds
\* Total number of requests served in one behaviour.
MaxRequests == 3
\* Worker threads serving requests concurrently.
NumWorkers == 2
\* Number of times the clock may jump forward by one token lifetime.
MaxTicks == 1
\* Connections the database server accepts at a time (max_connections); a
\* connect beyond it fails.
MaxConns == 1

\* ------------------------------------------------------- program constants
CpfLen == 11
CnpjLen == 14
JWT_EXPIRATION_SECONDS == 86400

\* ------------------------------------------------------------- Python values
\* Python's None, as a value comparable with every string of the model.
None == <<"None">>

\* Python truthiness of an optional string: None and "" are falsy.
Truthy(s) == s # None /\ s # <<>>

\* Python's  a or b  on optional strings.
PyOr(a, b) == IF Truthy(a) THEN a ELSE b

\* dict.get(k) and dict.get(k, default); a dict is a record.
Get(d, k) == IF k \in DOMAIN d THEN d[k] ELSE None
GetD(d, k, dflt) == IF k \in DOMAIN d THEN d[k] ELSE dflt

Digits == {"0", "1", "2", "3", "4", "5", "6", "7", "8", "9"}
IsDigit(c) == c \in Digits
IsSpace(c) == c \in {" ", "\t", "\n"}

RECURSIVE Rep(_, _)
Rep(c, n) == IF n = 0 THEN <<>> ELSE <<c>> \o Rep(c, n - 1)

\* str.lower() on the alphabet of the model.
LowerChar(c) ==
    CASE c = "A" -> "a"
      [] c = "B" -> "b"
      [] c = "X" -> "x"
      [] OTHER -> c
Lower(s) == [i \in 1..Len(s) |-> LowerChar(s[i])]

\* str.strip(): drop leading and trailing whitespace.
RECURSIVE LStrip(_)
LStrip(s) == IF s # <<>> /\ IsSpace(Head(s)) THEN LStrip(Tail(s)) ELSE s
RECURSIVE RStrip(_)
RStrip(s) ==
    IF s # <<>> /\ IsSpace(s[Len(s)]) THEN RStrip(SubSeq(s, 1, Len(s) - 1)) ELSE s
Strip(s) == RStrip(LStrip(s))

\* (user.get("email") or "").strip().lower()
NormEmail(raw) == Lower(Strip(PyOr(raw, <<>>)))

\* main.only_digits: None for a falsy argument, else the digits of s.
only_digits(s) == IF ~Truthy(s) THEN None ELSE SelectSeq(s, IsDigit)

\* bcrypt.hashpw(password, salt) and bcrypt.checkpw: an ideal salted
\* one-way hash, which verifies exactly the password it was made from.
hashpw(password, salt) == [alg |-> "2b", salt |-> salt, digest |-> password]
checkpw(password, hashed) == hashed.digest = password

\* ------------------------------------------------------------------ tokens
NoCred == [user_id |-> 0, email |-> None, scope_id |-> None, exp |-> 0, sig |-> "absent"]
NoClaims == [user_id |-> 0, email |-> None, scope_id |-> None, exp |-> 0]

\* main.create_token: the payload plus exp, signed with the process secret.
create_token(payload, t) ==
    [user_id |-> payload.user_id, email |-> payload.email,
     scope_id |-> payload.scope_id, exp |-> t + JWT_EXPIRATION_SECONDS, sig |-> "good"]

\* main.decode_token: jwt.decode checks the signature, then the expiry
\* (expired when exp <= now); either failure is a 401.
decode_token(token, t) ==
    IF token.sig # "good"
      THEN [ok |-> FALSE, status |-> 401, detail |-> <<"Token invalido">>, claims |-> NoClaims]
    ELSE IF token.exp <= t
      THEN [ok |-> FALSE, status |-> 401, detail |-> <<"Token expirado">>, claims |-> NoClaims]
    ELSE [ok |-> TRUE, status |-> 200, detail |-> <<>>,
          claims |-> [user_id |-> token.user_id, email |-> token.email,
                      scope_id |-> token.scope_id, exp |-> token.exp]]

\* security = HTTPBearer(): with no Authorization header the dependency
\* raises before get_current_user runs.  The status is the library's:
\* 403 in FastAPI releases before 0.122, 401 from 0.122 on.
MissingCredStatus == {401, 403}

\* main.get_current_user behind Depends(security).
get_current_user(cred, t, missing) ==
    IF cred.sig = "absent"
      THEN [ok |-> FALSE, status |-> missing, detail |-> <<"Not authenticated">>,
            claims |-> NoClaims]
      ELSE decode_token(cred, t)

\* A scope resolution that reads the cpf alone.
ScopeCpfOnly(user) == user.cpf
\* scope_id = user["cnpj"] or user["cpf"]
ScopeOf(user) == PyOr(user.cnpj, user.cpf)

\* -------------------------------------------------------------------- state
VARIABLES
    users,              \* table users, in insertion order (id = position)
    leads,              \* table leads
    products,           \* table products, in insertion order
    agent_settings,     \* table agent_settings, at most one row per cnpj
    whatsapp_sessions,  \* table whatsapp_sessions, at most one row per cnpj
    uniqueEmail,        \* whether users.email has a unique index: "yes", "no", or
                        \* "unknown" while no insert has depended on it
    tokens,             \* every token issued so far
    now,                \* the clock, in seconds
    nticks,             \* clock jumps so far
    nreq,               \* requests started so far
    openConns,          \* database connections opened and not yet closed
    wk,                 \* per worker thread: the request it is serving, or Idle
    last                \* the response sent last, with the request it answers

tables == <<users, leads, products, agent_settings, whatsapp_sessions>>
vars == <<users, leads, products, agent_settings, whatsapp_sessions, uniqueEmail,
          tokens, now, nticks, nreq, openConns, wk, last>>

Workers == 1..NumWorkers

Range(s) == {s[i] : i \in DOMAIN s}

\* ------------------------------------------------------------------ inputs
CnpjA == Rep("1", CnpjLen)
CpfB == Rep("2", CpfLen)
CpfBFormatted ==
    Rep("2", 3) \o <<".">> \o Rep("2", 3) \o <<".">> \o Rep("2", 3) \o <<"-">> \o Rep("2", 2)
Junk == <<"a", "b", "c">>

EmailA == <<"a", "@", "x">>
EmailARaw == <<" ", "A", "@", "X", " ">>
EmailB == <<"b", "@", "x">>

Body(name, email, password, cpf, cnpj) ==
    [name |-> name, email |-> email, password |-> password, cpf |-> cpf, cnpj |-> cnpj]

\* Request bodies of POST /api/auth/signup: accepted ones for two tenants,
\* the same e-mail in another spelling, and one body per validation rule.
SignupBodies ==
    { Body(<<"n">>, EmailA, <<"p">>, None, CnpjA),
      Body(<<"n">>, EmailB, <<"p">>, CpfBFormatted, None),
      Body(<<"n">>, EmailARaw, <<"p">>, CpfB, None),
      Body(<<"n">>, EmailB, <<"p">>, CpfB, Junk),
      Body(<<"n">>, EmailB, <<"p">>, CpfB, CnpjA),
      Body(<<"n">>, EmailB, <<"p">>, None, None),
      Body(<<"n">>, EmailB, <<"p">>, Rep("2", CpfLen - 1), None),
      Body(<<"n">>, EmailB, <<"p">>, None, Junk),
      Body(None, EmailB, <<"p">>, CpfB, None),
      Body(<<"n">>, EmailB, None, CpfB, None) }

\* Request bodies of POST /api/auth/login; a missing key is an absent field.
LoginBodies ==
    { [email |-> EmailA, password |-> <<"p">>],
      [email |-> EmailARaw, password |-> <<"p">>],
      [email |-> EmailA, password |-> <<"q">>],
      [email |-> EmailA],
      [email |-> EmailB, password |-> <<"p">>],
      [password |-> <<"p">>] }

ProductBodies == { [name |-> <<"p", "1">>, price |-> 10], [price |-> 10] }

SettingsBodies == { [agent_name |-> <<"b", "o", "t">>], [sector |-> <<"s">>] }

ConnectBodies == { [phone |-> <<"+", "5", "5">>], [instance_name |-> <<"i">>] }

\* What the WhatsApp collaborator may do with one call: answer 200 with a
\* JSON body (with or without a QR code) or with a body that is not JSON,
\* answer an error status, or not answer (requests raises).
UpOutcomes ==
    { [raised |-> FALSE, status_code |-> 200, text |-> "qr", isjson |-> TRUE,
       json |-> [qrCode |-> <<"Q">>]],
      [raised |-> FALSE, status_code |-> 200, text |-> "ok", isjson |-> TRUE,
       json |-> [state |-> <<"s">>]],
      [raised |-> FALSE, status_code |-> 200, text |-> "<html>", isjson |-> FALSE,
       json |-> [none |-> None]],
      [raised |-> FALSE, status_code |-> 500, text |-> "boom", isjson |-> TRUE,
       json |-> [error |-> <<"e">>]],
      [raised |-> TRUE, status_code |-> 0, text |-> "", isjson |-> FALSE,
       json |-> [none |-> None]] }

\* A token that was not signed with the process secret, claiming tenant A.
Forged ==
    [user_id |-> 1, email |-> EmailA, scope_id |-> CnpjA,
     exp |-> (MaxTicks + 2) * JWT_EXPIRATION_SECONDS, sig |-> "bad"]

\* What a client may send as credentials of a protected request.
Creds == {NoCred, Forged} \cup tokens

\* config.UAZAPI_BASE, config.UAZAPI_TOKEN
UAZAPI_BASE == <<"h", "t", "t", "p", ":", "/", "/", "u">>
UAZAPI_TOKEN == <<"t", "k">>

\* ---------------------------------------------------------------- storage
\* db.get_user_by_email: SELECT ... WHERE email = %s LIMIT 1.  With no ORDER
\* BY, any matching row may be the one returned.
get_user_by_email(email) == {u \in Range(users) : u.email = email}

\* bcrypt.gensalt(): a salt no stored hash has yet.
gensalt == Len(users) + 1

\* db.create_user: INSERT ... RETURNING *.
create_user(name, cpf, cnpj, email, password_hash) ==
    [id |-> Len(users) + 1, name |-> name, cpf |-> cpf, cnpj |-> cnpj,
     email |-> email, password_hash |-> password_hash]

\* A query on leads without its WHERE clause.
AllLeads(scope_id) == leads
\* db.get_all_leads_by_scope: SELECT * FROM leads WHERE cnpj = %s.
get_all_leads_by_scope(scope_id) == {l \in leads : l.cnpj = scope_id}

\* db.get_products_by_scope: SELECT * FROM products WHERE cnpj = %s.
get_products_by_scope(scope_id) == {p \in Range(products) : p.cnpj = scope_id}

\* A create_product that inserts the row and checks the name afterwards.
CreateProductInsertFirst(scope_id, product) ==
    [raised |-> ~Truthy(Get(product, "name")),
     row |-> [id |-> Len(products) + 1, cnpj |-> scope_id, name |-> Get(product, "name")],
     table |-> Append(products, [id |-> Len(products) + 1, cnpj |-> scope_id,
                                 name |-> Get(product, "name")])]
\* db.create_product: the name is checked before a connection is opened;
\* raised stands for the ValueError.
create_product(scope_id, product) ==
    LET name == Get(product, "name")
        row == [id |-> Len(products) + 1, cnpj |-> scope_id, name |-> name]
    IN  IF ~Truthy(name)
          THEN [raised |-> TRUE, row |-> row, table |-> products]
          ELSE [raised |-> FALSE, row |-> row, table |-> Append(products, row)]

\* db.get_agent_settings: SELECT * FROM agent_settings WHERE cnpj = %s LIMIT 1.
get_agent_settings(scope_id) == {s \in agent_settings : s.cnpj = scope_id}

\* db.update_agent_settings: INSERT ... ON CONFLICT (cnpj) DO UPDATE.
update_agent_settings(scope_id, settings) ==
    LET row == [cnpj |-> scope_id, agent_name |-> Get(settings, "agent_name"),
                sector |-> Get(settings, "sector")]
    IN  [row |-> row,
         table |-> {s \in agent_settings : s.cnpj # scope_id} \cup {row}]

\* db.upsert_whatsapp_session: INSERT ... ON CONFLICT (cnpj) DO UPDATE.
upsert_whatsapp_session(scope_id, token, subdomain, phone, status, qr_code) ==
    LET row == [cnpj |-> scope_id, token |-> token, subdomain |-> subdomain,
                phone |-> phone, status |-> status, qr_code |-> qr_code]
    IN  [row |-> row,
         table |-> {s \in whatsapp_sessions : s.cnpj # scope_id} \cup {row}]

\* db.get_whatsapp_session: SELECT ... WHERE cnpj = %s LIMIT 1.
get_whatsapp_session(scope_id) == {s \in whatsapp_sessions : s.cnpj = scope_id}

\* A handler that does not look at the upstream status.
UpstreamNeverFailed(r) == FALSE
\* if r.status_code != 200: raise HTTPException(500, ...)
UpstreamFailed(r) == r.status_code # 200

\* ------------------------------------------------------------ worker record
NoUp == [raised |-> FALSE, status_code |-> 0, text |-> "", isjson |-> FALSE,
         json |-> [none |-> None]]

Idle ==
    [pc |-> "idle", route |-> "none", cred |-> NoCred, expired |-> FALSE,
     authz |-> "none", claims |-> NoClaims, handler |-> FALSE,
     arg |-> [none |-> None], loc |-> [none |-> None], up |-> NoUp,
     status |-> 0, detail |-> <<>>, exc |-> "", token |-> NoCred,
     touched |-> {}, nwrites |-> 0, ndb |-> 0, ncalls |-> 0, n |-> 0]

\* The pool hands a new request to an idle thread; threads are
\* interchangeable, so the first idle one stands for any of them.
Free(w) ==
    /\ wk[w].pc = "idle"
    /\ \A v \in Workers : v < w => wk[v].pc # "idle"
    /\ nreq < MaxRequests

\* A request that has just been accepted by a worker.
Begin(route, arg) ==
    [Idle EXCEPT !.pc = "run", !.route = route, !.arg = arg]

\* The response of a request: an HTTPException(status, detail) ...
Raise(r, status, detail) ==
    [r EXCEPT !.pc = "done", !.status = status, !.detail = detail, !.loc = Idle.loc]
\* ... or an exception no handler catches, which the framework turns into 500 ...
Crash(r, exc) ==
    [r EXCEPT !.pc = "done", !.status = 500, !.detail = <<"Internal Server Error">>,
              !.exc = exc, !.loc = Idle.loc]
\* ... or the handler's return value; keys are the partition keys of the rows
\* the request returned or wrote.
Return(r, keys) ==
    [r EXCEPT !.pc = "done", !.status = 200, !.touched = @ \cup keys, !.loc = Idle.loc]

\* A step of worker w that leaves its request in state rec: a finished request
\* is answered and the thread returns to the pool.
Step(w, rec) ==
    IF rec.pc = "done"
      THEN wk' = [wk EXCEPT ![w] = Idle] /\ last' = [rec EXCEPT !.n = last.n + 1]
      ELSE wk' = [wk EXCEPT ![w] = rec] /\ UNCHANGED last

\* db.get_connection failing: DATABASE_URL unset, the server unreachable, or
\* the server out of connections.
DbDown == "OperationalError"

\* Depends(get_current_user) in front of a protected route.
Protected(route, arg, cred, missing) ==
    LET r0 == [Begin(route, arg) EXCEPT !.cred = cred, !.expired = cred.exp <= now]
        a == get_current_user(cred, now, missing)
    IN  IF a.ok
          THEN [r0 EXCEPT !.authz = "Authorized", !.claims = a.claims, !.handler = TRUE]
          ELSE [Raise(r0, a.status, a.detail) EXCEPT !.authz = "Rejected"]

\* --------------------------------------------------------------------- Init
Init ==
    /\ users = <<>>
    /\ leads = {[id |-> 1, cnpj |-> CnpjA, name |-> <<"l", "1">>],
                [id |-> 2, cnpj |-> CpfB, name |-> <<"l", "2">>]}
    /\ products = <<>>
    /\ agent_settings = {}
    /\ whatsapp_sessions = {}
    /\ uniqueEmail = "unknown"
    /\ tokens = {}
    /\ now = 0
    /\ nticks = 0
    /\ nreq = 0
    /\ openConns = 0
    /\ wk = [w \in Workers |-> Idle]
    /\ last = Idle

\* ------------------------------------------------------------------ signup
\* POST /api/auth/signup, up to and including db.get_user_by_email.
Signup(w, user, dbok) ==
    /\ Free(w)
    /\ LET r0 == [Begin("signup", user) EXCEPT !.handler = TRUE]
           name == Get(user, "name")
           email == NormEmail(Get(user, "email"))
           password == Get(user, "password")
           cpf == only_digits(Get(user, "cpf"))
           cnpj == only_digits(Get(user, "cnpj"))
           lookup == [r0 EXCEPT !.ndb = 1]
       IN  IF Truthy(cpf) = Truthy(cnpj)
             THEN /\ Step(w, Raise(r0, 400, <<"Informe CPF OU CNPJ (apenas um).">>))
                  /\ UNCHANGED openConns
           ELSE IF Truthy(cpf) /\ Len(cpf) # CpfLen
             THEN /\ Step(w, Raise(r0, 400, <<"CPF deve ter 11 digitos">>))
                  /\ UNCHANGED openConns
           ELSE IF Truthy(cnpj) /\ Len(cnpj) # CnpjLen
             THEN /\ Step(w, Raise(r0, 400, <<"CNPJ deve ter 14 digitos">>))
                  /\ UNCHANGED openConns
           ELSE IF ~(Truthy(name) /\ Truthy(email) /\ Truthy(password))
             THEN /\ Step(w, Raise(r0, 400, <<"Campos obrigatorios ausentes">>))
                  /\ UNCHANGED openConns
           ELSE IF ~dbok
             THEN /\ Step(w, Crash(lookup, DbDown))
                  /\ UNCHANGED openConns
           ELSE IF get_user_by_email(email) # {}
             THEN /\ Step(w, Raise(lookup, 400, <<"E-mail ja cadastrado.">>))
                  /\ openConns' = openConns + 1
           ELSE /\ Step(w,
                            [lookup EXCEPT !.pc = "signup_insert",
                                           !.loc = [name |-> name, cpf |-> cpf, cnpj |-> cnpj,
                                                    email |-> email, password |-> password]])
                /\ openConns' = openConns + 1
    /\ nreq' = nreq + 1
    /\ UNCHANGED <<tables, uniqueEmail, tokens, now, nticks>>

\* POST /api/auth/signup, from bcrypt.hashpw to the response.
SignupInsert(w, dbok, unique) ==
    /\ wk[w].pc = "signup_insert"
    /\ LET r == [wk[w] EXCEPT !.ndb = @ + 1]
           l == r.loc
           hashed == hashpw(l.password, gensalt)
           created == create_user(l.name, l.cpf, l.cnpj, l.email, hashed)
           token == create_token([user_id |-> created.id, email |-> created.email,
                                  scope_id |-> ScopeOf(created)], now)
       IN  IF ~dbok
             THEN /\ Step(w, Crash(r, DbDown))
                  /\ UNCHANGED <<users, tokens, openConns>>
           ELSE IF unique = "yes" /\ get_user_by_email(l.email) # {}
             THEN /\ Step(w, Crash(r, "UniqueViolation"))
                  /\ openConns' = openConns + 1
                  /\ UNCHANGED <<users, tokens>>
           ELSE /\ users' = Append(users, created)
                /\ tokens' = tokens \cup {token}
                /\ openConns' = openConns + 1
                /\ Step(w,
                            [Return(r, {}) EXCEPT !.token = token, !.nwrites = @ + 1])
    /\ uniqueEmail' =
          IF dbok /\ get_user_by_email(wk[w].loc.email) # {} THEN unique ELSE uniqueEmail
    /\ UNCHANGED <<leads, products, agent_settings, whatsapp_sessions, now, nticks, nreq>>

\* ------------------------------------------------------------------- login
\* POST /api/auth/login.
Login(w, data, dbok) ==
    /\ Free(w)
    /\ LET r == [Begin("login", data) EXCEPT !.handler = TRUE, !.ndb = 1]
           email == NormEmail(Get(data, "email"))
           password == Get(data, "password")
           found == get_user_by_email(email)
       IN  IF ~dbok
             THEN /\ Step(w, Crash(r, DbDown))
                  /\ UNCHANGED <<tokens, openConns>>
           ELSE IF found = {}
             THEN /\ Step(w, Raise(r, 401, <<"Credenciais invalidas">>))
                  /\ openConns' = openConns + 1
                  /\ UNCHANGED tokens
           ELSE \E user \in found :
                  /\ openConns' = openConns + 1
                  /\ IF password = None
                       \* None.encode() raises AttributeError
                       THEN /\ Step(w, Crash(r, "AttributeError"))
                            /\ UNCHANGED tokens
                     ELSE IF ~checkpw(password, user.password_hash)
                       THEN /\ Step(w,
                                        Raise(r, 401, <<"Credenciais invalidas">>))
                            /\ UNCHANGED tokens
                     ELSE LET token == create_token(
                                  [user_id |-> user.id, email |-> user.email,
                                   scope_id |-> ScopeOf(user)], now)
                          IN  /\ tokens' = tokens \cup {token}
                              /\ Step(w,
                                          [Return(r, {}) EXCEPT !.token = token])
    /\ nreq' = nreq + 1
    /\ UNCHANGED <<tables, uniqueEmail, now, nticks>>

\* ------------------------------------------------------- leads and products
\* GET /api/leads.
ListLeads(w, cred, missing, dbok) ==
    /\ Free(w)
    /\ LET r == Protected("list_leads", [none |-> None], cred, missing)
           rows == get_all_leads_by_scope(r.claims.scope_id)
       IN  IF r.pc = "done"
             THEN Step(w, r) /\ UNCHANGED openConns
           ELSE IF ~dbok
             THEN Step(w, Crash([r EXCEPT !.ndb = 1], DbDown))
                  /\ UNCHANGED openConns
           ELSE /\ Step(w,
                            Return([r EXCEPT !.ndb = 1], {x.cnpj : x \in rows}))
                /\ openConns' = openConns + 1
    /\ nreq' = nreq + 1
    /\ UNCHANGED <<tables, uniqueEmail, tokens, now, nticks>>

\* GET /api/products.
ListProducts(w, cred, missing, dbok) ==
    /\ Free(w)
    /\ LET r == Protected("list_products", [none |-> None], cred, missing)
           rows == get_products_by_scope(r.claims.scope_id)
       IN  IF r.pc = "done"
             THEN Step(w, r) /\ UNCHANGED openConns
           ELSE IF ~dbok
             THEN Step(w, Crash([r EXCEPT !.ndb = 1], DbDown))
                  /\ UNCHANGED openConns
           ELSE /\ Step(w,
                            Return([r EXCEPT !.ndb = 1], {x.cnpj : x \in rows}))
                /\ openConns' = openConns + 1
    /\ nreq' = nreq + 1
    /\ UNCHANGED <<tables, uniqueEmail, tokens, now, nticks>>

\* POST /api/products: a ValueError of db.create_product becomes a 400.
AddProduct(w, cred, missing, product, dbok) ==
    /\ Free(w)
    /\ LET r == Protected("add_product", product, cred, missing)
           res == create_product(r.claims.scope_id, product)
           called == [r EXCEPT !.ndb = 1]
       IN  IF r.pc = "done"
             THEN Step(w, r) /\ UNCHANGED <<products, openConns>>
           ELSE IF res.raised
             THEN /\ Step(w,
                              [Raise(called, 400, <<"name e obrigatorio">>)
                                 EXCEPT !.nwrites = IF res.table = products THEN 0 ELSE 1])
                  /\ products' = res.table
                  /\ UNCHANGED openConns
           ELSE IF ~dbok
             THEN Step(w, Crash(called, DbDown))
                  /\ UNCHANGED <<products, openConns>>
           ELSE /\ Step(w,
                            [Return(called, {res.row.cnpj}) EXCEPT !.nwrites = 1])
                /\ products' = res.table
                /\ openConns' = openConns + 1
    /\ nreq' = nreq + 1
    /\ UNCHANGED <<users, leads, agent_settings, whatsapp_sessions, uniqueEmail,
                   tokens, now, nticks>>

\* ---------------------------------------------------------- agent settings
\* GET /api/settings/agent.
GetSettings(w, cred, missing, dbok) ==
    /\ Free(w)
    /\ LET r == Protected("get_settings", [none |-> None], cred, missing)
           rows == get_agent_settings(r.claims.scope_id)
       IN  IF r.pc = "done"
             THEN Step(w, r) /\ UNCHANGED openConns
           ELSE IF ~dbok
             THEN Step(w, Crash([r EXCEPT !.ndb = 1], DbDown))
                  /\ UNCHANGED openConns
           ELSE /\ Step(w,
                            Return([r EXCEPT !.ndb = 1], {x.cnpj : x \in rows}))
                /\ openConns' = openConns + 1
    /\ nreq' = nreq + 1
    /\ UNCHANGED <<tables, uniqueEmail, tokens, now, nticks>>

\* PUT /api/settings/agent.
UpdateSettings(w, cred, missing, settings, dbok) ==
    /\ Free(w)
    /\ LET r == Protected("update_settings", settings, cred, missing)
           res == update_agent_settings(r.claims.scope_id, settings)
       IN  IF r.pc = "done"
             THEN Step(w, r) /\ UNCHANGED <<agent_settings, openConns>>
           ELSE IF ~dbok
             THEN Step(w, Crash([r EXCEPT !.ndb = 1], DbDown))
                  /\ UNCHANGED <<agent_settings, openConns>>
           ELSE /\ Step(w,
                            [Return([r EXCEPT !.ndb = 1], {res.row.cnpj})
                               EXCEPT !.nwrites = 1])
                /\ agent_settings' = res.table
                /\ openConns' = openConns + 1
    /\ nreq' = nreq + 1
    /\ UNCHANGED <<users, leads, products, whatsapp_sessions, uniqueEmail,
                   tokens, now, nticks>>

\* ---------------------------------------------------------------- WhatsApp
\* POST /api/whatsapp/connect, up to and including requests.post and r.json().
ConnectCall(w, cred, missing, data, r) ==
    /\ Free(w)
    /\ LET q == Protected("connect_whatsapp", data, cred, missing)
           instance_name ==
               GetD(data, "instance_name", <<"i", "n", "s", "t", "_">> \o q.claims.scope_id)
           phone == only_digits(Get(data, "phone"))
           sent == [q EXCEPT !.ncalls = 1, !.up = r]
           res == r.json
           qr == PyOr(PyOr(Get(res, "qrCode"), Get(res, "qrcode")), Get(res, "qr"))
       IN  IF q.pc = "done"
             THEN Step(w, q)
           ELSE IF r.raised
             THEN Step(w, Crash(sent, "RequestException"))
           ELSE IF UpstreamFailed(r)
             THEN Step(w, Raise(sent, 500, <<"Erro UAZAPI: ", r.text>>))
           ELSE IF ~r.isjson
             THEN Step(w, Crash(sent, "JSONDecodeError"))
           ELSE Step(w,
                         [sent EXCEPT !.pc = "connect_upsert",
                                      !.loc = [instance_name |-> instance_name,
                                               phone |-> phone, qr |-> qr]])
    /\ nreq' = nreq + 1
    /\ UNCHANGED <<tables, uniqueEmail, tokens, now, nticks, openConns>>

\* POST /api/whatsapp/connect, from db.upsert_whatsapp_session to the response.
ConnectUpsert(w, dbok) ==
    /\ wk[w].pc = "connect_upsert"
    /\ LET q == [wk[w] EXCEPT !.ndb = 1]
           res == upsert_whatsapp_session(q.claims.scope_id, UAZAPI_TOKEN, UAZAPI_BASE,
                                          q.loc.phone, "connecting", PyOr(q.loc.qr, <<>>))
       IN  IF ~dbok
             THEN Step(w, Crash(q, DbDown))
                  /\ UNCHANGED <<whatsapp_sessions, openConns>>
           ELSE /\ Step(w,
                            [Return(q, {res.row.cnpj}) EXCEPT !.nwrites = 1])
                /\ whatsapp_sessions' = res.table
                /\ openConns' = openConns + 1
    /\ UNCHANGED <<users, leads, products, agent_settings, uniqueEmail, tokens,
                   now, nticks, nreq>>

\* GET /api/whatsapp/status, up to and including db.get_whatsapp_session.
StatusBegin(w, cred, missing, dbok) ==
    /\ Free(w)
    /\ LET q == Protected("whatsapp_status", [none |-> None], cred, missing)
           found == get_whatsapp_session(q.claims.scope_id)
           looked == [q EXCEPT !.ndb = 1]
       IN  IF q.pc = "done"
             THEN Step(w, q) /\ UNCHANGED openConns
           ELSE IF ~dbok
             THEN Step(w, Crash(looked, DbDown)) /\ UNCHANGED openConns
           ELSE IF found = {}
             THEN /\ Step(w, Raise(looked, 404, <<"Sessao nao encontrada">>))
                  /\ openConns' = openConns + 1
           ELSE \E sess \in found :
                  /\ Step(w,
                              [looked EXCEPT !.pc = "status_call", !.loc = sess,
                                             !.touched = {sess.cnpj}])
                  /\ openConns' = openConns + 1
    /\ nreq' = nreq + 1
    /\ UNCHANGED <<tables, uniqueEmail, tokens, now, nticks>>

\* GET /api/whatsapp/status, from requests.get to the response.
StatusCall(w, r) ==
    /\ wk[w].pc = "status_call"
    /\ LET sent == [wk[w] EXCEPT !.ncalls = @ + 1, !.up = r]
       IN  IF r.raised
             THEN Step(w, Crash(sent, "RequestException"))
           ELSE IF UpstreamFailed(r)
             THEN Step(w, Raise(sent, 500, <<"Erro UAZAPI: ", r.text>>))
           ELSE IF ~r.isjson
             THEN Step(w, Crash(sent, "JSONDecodeError"))
           ELSE Step(w, Return(sent, {}))
    /\ UNCHANGED <<tables, uniqueEmail, tokens, now, nticks, nreq, openConns>>

\* ------------------------------------------------------------- environment
\* Time passes: one token lifetime at a time.
Tick ==
    /\ nticks < MaxTicks
    /\ now' = now + JWT_EXPIRATION_SECONDS
    /\ nticks' = nticks + 1
    /\ UNCHANGED <<tables, uniqueEmail, tokens, nreq, openConns, wk, last>>

\* psycopg2's  with conn:  ends the transaction and leaves the connection
\* open, and no db function calls conn.close(); the connection is closed
\* when the interpreter finalizes the unreferenced object.
Finalize ==
    /\ openConns > 0
    /\ openConns' = openConns - 1
    /\ UNCHANGED <<tables, uniqueEmail, tokens, now, nticks, nreq, wk, last>>

\* The statuses HTTPBearer may answer with for these credentials, and what the
\* database may do for a request with these credentials (it is not reached
\* when the request is rejected).
\* The schema is the deployment's: whether users.email is unique is settled
\* the first time an insert depends on it, and stays.
Schema == IF uniqueEmail = "unknown" THEN {"yes", "no"} ELSE {uniqueEmail}
DbOutcomes == IF openConns < MaxConns THEN BOOLEAN ELSE {FALSE}
MissingFor(cred) == IF cred.sig = "absent" THEN MissingCredStatus ELSE {401}
DbFor(cred) == IF get_current_user(cred, now, 401).ok THEN DbOutcomes ELSE {TRUE}
UpFor(cred) ==
    IF get_current_user(cred, now, 401).ok THEN UpOutcomes ELSE {NoUp}

Next ==
    \/ \E w \in Workers, user \in SignupBodies, dbok \in DbOutcomes : Signup(w, user, dbok)
    \/ \E w \in Workers, dbok \in DbOutcomes, unique \in Schema : SignupInsert(w, dbok, unique)
    \/ \E w \in Workers, data \in LoginBodies, dbok \in DbOutcomes : Login(w, data, dbok)
    \/ \E w \in Workers, cred \in Creds :
         \E missing \in MissingFor(cred), dbok \in DbFor(cred) :
            ListLeads(w, cred, missing, dbok)
    \/ \E w \in Workers, cred \in Creds :
         \E missing \in MissingFor(cred), dbok \in DbFor(cred) :
            ListProducts(w, cred, missing, dbok)
    \/ \E w \in Workers, cred \in Creds, product \in ProductBodies :
         \E missing \in MissingFor(cred), dbok \in DbFor(cred) :
            AddProduct(w, cred, missing, product, dbok)
    \/ \E w \in Workers, cred \in Creds :
         \E missing \in MissingFor(cred), dbok \in DbFor(cred) :
            GetSettings(w, cred, missing, dbok)
    \/ \E w \in Workers, cred \in Creds, settings \in SettingsBodies :
         \E missing \in MissingFor(cred), dbok \in DbFor(cred) :
            UpdateSettings(w, cred, missing, settings, dbok)
    \/ \E w \in Workers, cred \in Creds, data \in ConnectBodies :
         \E missing \in MissingFor(cred), r \in UpFor(cred) :
            ConnectCall(w, cred, missing, data, r)
    \/ \E w \in Workers, dbok \in DbOutcomes : ConnectUpsert(w, dbok)
    \/ \E w \in Workers, cred \in Creds :
         \E missing \in MissingFor(cred), dbok \in DbFor(cred) :
            StatusBegin(w, cred, missing, dbok)
    \/ \E w \in Workers, r \in UpOutcomes : StatusCall(w, r)
    \/ Tick
    \/ Finalize

Spec == Init /\ [][Next]_vars

\* ================================================================== claims
ProtectedRoutes ==
    {"list_leads", "list_products", "add_product", "get_settings", "update_settings",
     "connect_whatsapp", "whatsapp_status"}

\* Every request the state knows of: the ones in service and the one answered last.
Requests == {wk[w] : w \in Workers} \cup {last}
Started == {r \in Requests : r.pc # "idle"}

\* The collaborator answered the request's upstream call with a non-200 status.
UpstreamAnsweredError(r) == r.ncalls > 0 /\ ~r.up.raised /\ r.up.status_code # 200

\* A response has just been sent.
Responds == last'.n # last.n

\* C1: a protected request ends Authorized or Rejected; it is Rejected when the
\* bearer header is absent or the token is expired or invalid; a Rejected
\* request gets 401 and neither its handler nor any storage operation or
\* upstream call runs; the handler runs only once the token is verified.
AuthBoundary ==
    \A r \in Started :
        r.route \in ProtectedRoutes =>
            /\ r.authz \in {"Authorized", "Rejected"}
            /\ (r.cred.sig = "absent" \/ r.cred.sig = "bad" \/ r.expired)
                   => r.authz = "Rejected"
            /\ r.authz = "Rejected" =>
                   /\ r.pc = "done"
                   /\ r.status = 401
                   /\ ~r.handler /\ r.ndb = 0 /\ r.ncalls = 0 /\ r.nwrites = 0
            /\ r.handler => r.cred.sig = "good" /\ ~r.expired

\* C2: tenant isolation.  A request whose token carries scope A returns and
\* writes only rows whose partition key is A, and no step of a request
\* changes the rows of a scope other than the one in its token.
ScopeKeys == {CnpjA, CpfB}
RowsOf(k) ==
    <<{x \in leads : x.cnpj = k}, {x \in Range(products) : x.cnpj = k},
      {x \in agent_settings : x.cnpj = k}, {x \in whatsapp_sessions : x.cnpj = k}>>
Acting ==
    IF Responds THEN {last'} ELSE {wk'[w] : w \in {v \in Workers : wk'[v] # wk[v]}}
TouchesOwnScope ==
    \A r \in Started : r.route \in ProtectedRoutes => r.touched \subseteq {r.claims.scope_id}
ChangesOwnScope ==
    \A k \in ScopeKeys :
        RowsOf(k)' # RowsOf(k) =>
            \E r \in Acting : r.authz = "Authorized" /\ r.claims.scope_id = k
EmailUniqueness ==
    /\ \A i, j \in DOMAIN users : i # j => users[i].email # users[j].email
    /\ \A r \in Started :
          (r.route = "signup" /\ r.exc = "UniqueViolation") => r.status = 400

\* C4: every stored user has exactly one of cpf and cnpj, digits only, of
\* length 11 or 14; a signup giving both, neither, or an id whose digit count
\* is not 11 (cpf) or 14 (cnpj) is answered 400.
Given(x) == x # None /\ x # <<>>
DigitCount(x) == Len(SelectSeq(x, IsDigit))
AllDigits(x) == \A i \in DOMAIN x : IsDigit(x[i])
BadTaxIds(body) ==
    \/ Given(body.cpf) /\ Given(body.cnpj)
    \/ ~Given(body.cpf) /\ ~Given(body.cnpj)
    \/ Given(body.cpf) /\ DigitCount(body.cpf) # CpfLen
    \/ Given(body.cnpj) /\ DigitCount(body.cnpj) # CnpjLen
TaxIdRule ==
    /\ \A u \in Range(users) :
          /\ (u.cpf = None) # (u.cnpj = None)
          /\ u.cpf # None => AllDigits(u.cpf) /\ Len(u.cpf) = CpfLen
          /\ u.cnpj # None => AllDigits(u.cnpj) /\ Len(u.cnpj) = CnpjLen
    /\ \A r \in Started :
          (r.route = "signup" /\ BadTaxIds(r.arg) /\ r.exc # DbDown) =>
              r.pc = "done" /\ r.status = 400

\* C5: every token issued for a user carries the user's cnpj if present, else
\* the cpf; the scope is non-empty and the same in all tokens of that user.
ScopeStable ==
    /\ \A t \in tokens :
          /\ t.user_id \in DOMAIN users
          /\ LET u == users[t.user_id]
             IN  t.scope_id = (IF Given(u.cnpj) THEN u.cnpj ELSE u.cpf)
          /\ Given(t.scope_id)
    /\ \A t1, t2 \in tokens : t1.user_id = t2.user_id => t1.scope_id = t2.scope_id
    /\ \A r \in Started : r.token # NoCred => r.token \in tokens

\* C5 witness: a user identified by cnpj holds two tokens, one from signup and
\* one from a later login.
ScopeStableWitness ==
    /\ last.route = "login" /\ last.status = 200
    /\ \E t \in tokens :
          /\ t # last.token /\ t.user_id = last.token.user_id
          /\ Given(users[t.user_id].cnpj)

\* C6: login issues a token only when a user with the normalized e-mail exists
\* and the password verifies against the stored hash; every other login is
\* answered 401 and issues no token.
CredentialsMatch(body) ==
    \E u \in Range(users) :
        /\ u.email = NormEmail(Get(body, "email"))
        /\ Get(body, "password") # None
        /\ u.password_hash.digest = Get(body, "password")
LoginRule ==
    (last.route = "login" /\ last.exc # DbDown) =>
        IF CredentialsMatch(last.arg)
          THEN last.status = 200 /\ last.token # NoCred
          ELSE last.status = 401 /\ last.token = NoCred

\* C7: a request answered 400 changes no table: the response step leaves every
\* table as it was and the request has written nothing before it.
ValidationNoMutation ==
    [][(Responds /\ last'.status = 400) =>
          /\ UNCHANGED tables
          /\ UNCHANGED tokens
          /\ last'.nwrites = 0]_vars

\* C7 witness: a product without a name was refused while the tenant has
\* products stored.
ValidationNoMutationWitness ==
    /\ last.route = "add_product" /\ last.status = 400
    /\ \E x \in Range(products) : x.cnpj = last.claims.scope_id

\* C8: when the collaborator answers a non-200 status, the request is answered
\* 500 with the upstream body in the detail, exactly one upstream call was
\* made, and connect leaves the caller's session record as it was.
UpstreamFailureAnswer ==
    \A r \in Started :
        UpstreamAnsweredError(r) =>
            /\ r.pc = "done"
            /\ r.status = 500
            /\ r.detail = <<"Erro UAZAPI: ", r.up.text>>
            /\ r.ncalls = 1
            /\ r.route = "connect_whatsapp" => r.nwrites = 0
UpstreamFailureStep ==
    (Responds /\ UpstreamAnsweredError(last')) => UNCHANGED tables
UpstreamFailureFails == []UpstreamFailureAnswer /\ [][UpstreamFailureStep]_vars

\* C8 witness: a connect failed upstream while the caller already has a session.
UpstreamFailureWitness ==
    /\ last.route = "connect_whatsapp" /\ UpstreamAnsweredError(last)
    /\ \E x \in whatsapp_sessions : x.cnpj = last.claims.scope_id

\* C9: every request has a single outcome: success with all of its side effects
\* (user row and token for signup; upstream connect and session row for
\* connect), or an error with none of them.
Atomicity ==
    last.n > 0 =>
        /\ (last.status = 200 /\ last.route = "signup") =>
               last.nwrites = 1 /\ last.token # NoCred
        /\ (last.status = 200 /\ last.route = "connect_whatsapp") =>
               last.ncalls = 1 /\ last.nwrites = 1
        /\ last.status # 200 =>
               /\ last.nwrites = 0
               /\ last.route = "connect_whatsapp" =>
                      ~(last.ncalls > 0 /\ ~last.up.raised /\ last.up.status_code = 200)

\* C10: whenever no request is in service, no database connection is open.
ConnectionsReleased ==
    (\A w \in Workers : wk[w].pc = "idle") => openConns = 0
====
